---- MODULE Spec2Model ----
(***************************************************************************)
(* dll::dynamic_library (src/application/dynamic_library.hpp): an RAII     *)
(* owner of one platform library handle with a per-object symbol cache.    *)
(*                                                                         *)
(* The operating-system loader is modelled by what the header relies on:   *)
(* every successful open (dlopen / LoadLibraryA) yields one open reference *)
(* that has to be balanced by exactly one close (dlclose / FreeLibrary).   *)
(* The loaders count references per module, so a handle value of the model *)
(* stands for one such open reference of the module loaded[h].             *)
(*                                                                         *)
(* Spec is the build of the #else branch (dlopen, dlsym, dlerror) on       *)
(* Linux, SpecWindows the build of the _WIN32 branch; in both a member     *)
(* call is one step. SpecMT runs invoke statement by statement in several  *)
(* threads on one object.                                                  *)
(***************************************************************************)
EXTENDS Integers, Sequences, FiniteSets, TLC

\* ------------------------------------------------------------------ bounds
\* Successful opens in one run (caps the loader's reference numbering).
MaxOpens == 2

\* Threads that call invoke on one object at the same time.
NumThreads == 2

\* ------------------------------------------------------------- the universe
Objs == {"a", "b"}

\* nullptr as a library_handle, and nullptr as a symbol address.
Null == 0
NullSym == "nullptr"

LoadablePaths == {"libdynamic.so", "libother.so"}
Paths == LoadablePaths \cup {"missing.so"}

\* intAdd and doubleAdd are fixture exports; puts is exported by no module, only
\* (possibly) by the process itself.
Names == {"intAdd", "doubleAdd", "puts"}

\* The data symbols looked up in the fixture library.
VarNames == {"g_counter", "g_counter_ptr"}

\* The symbols a module exports (the fixture exports intAdd and doubleAdd,
\* and the variables g_counter and g_counter_ptr).
Exports(path) ==
  IF path = "libdynamic.so" THEN {"intAdd", "doubleAdd"} \cup VarNames
  ELSE IF path = "libother.so" THEN {"intAdd"}
  ELSE {}

\* The symbols of a module whose value is a null address: the loader finds
\* them, returns nullptr and reports no error (the case dlerror() is cleared
\* for before dlsym). The other library has doubleAdd as such a symbol.
NullValued(path) == IF path = "libother.so" THEN {"doubleAdd"} ELSE {}

\* Symbols that the process itself may export (the main program and the
\* libraries it was linked with).
ProcessCandidates == {"puts"}

Platforms == {"posix", "windows"}

\* The function types a caller declares as F in invoke<F>.
Signatures == {"double(double, double)", "double()"}

Threads == 1..NumThreads

\* The owner of an unlocked mutex.
NoThread == 0

\* The object the threads share.
Shared == "a"

VARIABLES
  platform,     \* which branch of the #if the build selected
  processSyms,  \* names the loader finds when it is given a null handle
  loaded,       \* loader: loaded[h] is the module path of open reference h
  closeCount,   \* loader: closeCount[h] is how often h was closed
  errst,        \* the thread's loader error state: dlerror() text / GetLastError() code
  objs,         \* objs[o]: [live, handle_, cache_] of each dynamic_library object
  last,         \* what the last operation did and returned
  mtx_,         \* the thread that holds the shared object's mtx_, or NoThread
  thr,          \* thr[t]: where thread t is inside invoke, and its locals
  resolved      \* resolved[n]: addresses get<F>(n) returned to invoke since the
                \* shared object's cache was last cleared

mtvars == <<mtx_, thr, resolved>>

\* The fixture library's callback registry (src/dynamic/src/dynamic.cpp).
VARIABLES
  g_double_cb,  \* static double_callback_t g_double_cb
  g_point_cb,   \* static point_callback_t g_point_cb
  g_box_cb,     \* static box_callback_t g_box_cb
  latest,       \* latest[kind]: the argument of the last register_<kind>_callback
  triggered     \* the last trigger_callbacks: its n and the callbacks it called

fixturevars == <<g_double_cb, g_point_cb, g_box_cb, latest, triggered>>

\* The fixture library's exported data and a client's pointer into it.
VARIABLES
  g_counter,    \* int g_counter in the loaded fixture module
  counter_ptr   \* the client's int *counter_ptr (main.cpp testGetVariable)

datavars == <<g_counter, counter_ptr>>

\* The objects of the legacy class DynamicLibrary (dynamicLibrary.hpp).
VARIABLES
  legacy        \* legacy[o]: [live, handle] of each DynamicLibrary object

sidevars == <<fixturevars, datavars, legacy>>

vars == <<platform, processSyms, loaded, closeCount, errst, objs, last, mtvars,
          sidevars>>

\* std::unordered_map<std::string, void *>: a function from the cached names.
EmptyCache == [n \in {} |-> NullSym]

\* A default-initialised object (handle_ = nullptr, empty cache_).
EmptyObject == [handle_ |-> Null, cache_ |-> EmptyCache]

\* The storage of an object that is not constructed (or was destroyed).
NoObject == [live |-> FALSE, handle_ |-> Null, cache_ |-> EmptyCache]

Live(v) == [live |-> TRUE, handle_ |-> v.handle_, cache_ |-> v.cache_]

Value(o) == [handle_ |-> objs[o].handle_, cache_ |-> objs[o].cache_]

\* --------------------------------------------------------- platform shim

\* std::to_string(DWORD)
Digit(d) == <<"0", "1", "2", "3", "4", "5", "6", "7", "8", "9">>[d + 1]

RECURSIVE to_string(_)
to_string(n) == IF n < 10 THEN Digit(n) ELSE to_string(n \div 10) \o Digit(n % 10)

\* The process image's name in loader messages about the global scope.
ModuleName(h) == IF h = Null THEN "process" ELSE loaded[h]

\* What the loader leaves for dlerror() when dlopen / dlsym fail.
DlopenMessage(path) == path \o ": cannot open shared object file"
DlsymMessage(h, name) == ModuleName(h) \o ": undefined symbol: " \o name

\* FormatMessageA for the codes LoadLibraryA (126) and GetProcAddress (127) set.
FormatMessageA(code) ==
  IF code = 126 THEN "The specified module could not be found."
  ELSE IF code = 127 THEN "The specified procedure could not be found."
  ELSE ""

\* dlsym / GetProcAddress: the address of name in the module behind h. A null
\* handle makes the loader search the process's own scope (RTLD_DEFAULT is a
\* null pointer in glibc); a platform that rejects it has processSyms = {}.
Lookup(h, name) ==
  IF h = Null
  THEN IF name \in processSyms THEN "process!" \o name ELSE NullSym
  ELSE IF name \in Exports(loaded[h]) THEN loaded[h] \o "!" \o name ELSE NullSym

\* detail::load_library: [ret: the new handle or nullptr, err: error state after].
load_library(E, path) ==
  IF path \in LoadablePaths
  THEN [ret |-> Len(loaded) + 1, err |-> E]
  ELSE [ret |-> Null,
        err |-> IF platform = "posix"
                THEN [E EXCEPT !.dlerr = DlopenMessage(path)]
                ELSE [E EXCEPT !.code = 126]]

\* detail::unload_library: the handles it passes to dlclose / FreeLibrary.
unload_library(h) == IF h # Null THEN <<h>> ELSE << >>

\* dlsym / GetProcAddress report an error only for a name they do not find;
\* dlsym finds a null-valued symbol, GetProcAddress fails for every null.
Found(h, name) ==
  \/ Lookup(h, name) # NullSym
  \/ platform = "posix" /\ h # Null /\ name \in NullValued(loaded[h])

\* A load_symbol that calls dlsym without the dlerror() before it.
load_symbol_uncleared(E, h, name) ==
  [ret |-> Lookup(h, name),
   err |-> IF Found(h, name) THEN E
           ELSE IF platform = "posix"
                THEN [E EXCEPT !.dlerr = DlsymMessage(h, name)]
                ELSE [E EXCEPT !.code = 127]]

\* detail::load_symbol: POSIX clears the pending error with dlerror() first.
load_symbol(E, h, name) ==
  LET addr == Lookup(h, name)
      E1 == IF platform = "posix" THEN [E EXCEPT !.dlerr = ""] ELSE E
  IN [ret |-> addr,
      err |-> IF Found(h, name) THEN E1
              ELSE IF platform = "posix"
                   THEN [E1 EXCEPT !.dlerr = DlsymMessage(h, name)]
                   ELSE [E1 EXCEPT !.code = 127]]

\* detail::get_last_error: [text, err]; dlerror() returns the pending text and
\* clears it, GetLastError() only reads the code.
get_last_error(E) ==
  IF platform = "posix"
  THEN [text |-> IF E.dlerr # "" THEN E.dlerr ELSE "Unknown error",
        err |-> [E EXCEPT !.dlerr = ""]]
  ELSE [text |-> IF E.code = 0 THEN "No error"
                 ELSE "Error Code: " \o to_string(E.code) \o " - " \o
                      (IF FormatMessageA(E.code) # "" THEN FormatMessageA(E.code)
                       ELSE "Unknown error"),
        err |-> E]

\* The loader's bookkeeping of the closes an operation made.
RECURSIVE ApplyCloses(_, _)
ApplyCloses(cc, hs) ==
  IF hs = << >> THEN cc
  ELSE ApplyCloses([cc EXCEPT ![Head(hs)] = @ + 1], Tail(hs))

\* ------------------------------------------------- dynamic_library, by value
\* The member functions as functions of the object's members v = [handle_, cache_]
\* (and of the thread's error state E), returning the members afterwards.

valid(v) == v.handle_ # Null

native_handle(v) == v.handle_

\* A release that leaves the closed handle in handle_.
ReleasedHandle_kept(h) == h

\* handle_ = nullptr after the close
ReleasedHandle(h) == Null

\* unload_handle: closes only a non-null handle, then forgets it.
unload_handle(v) ==
  IF v.handle_ # Null
  THEN [obj |-> [v EXCEPT !.handle_ = ReleasedHandle(v.handle_)],
        closed |-> unload_library(v.handle_)]
  ELSE [obj |-> v, closed |-> << >>]

\* An unload that forgets the cache.
clear_cache_skipped(v) == v

\* clear_cache: cache_.clear() under the mutex
clear_cache(v) == [v EXCEPT !.cache_ = EmptyCache]

\* unload: unload_handle(); clear_cache();
unload(v) ==
  LET u == unload_handle(v)
  IN [obj |-> clear_cache(u.obj), closed |-> u.closed]

\* A load that does not check what load_library returned.
load_handle_unchecked(E, path) ==
  LET r == load_library(E, path)
  IN [handle_ |-> r.ret, threw |-> FALSE, what |-> "", err |-> r.err]

\* load_handle: handle_ = load_library(path); throws when that is null.
load_handle(E, path) ==
  LET r == load_library(E, path)
      g == get_last_error(r.err)
  IN IF r.ret = Null
     THEN [handle_ |-> r.ret, threw |-> TRUE,
           what |-> "Failed to load library: " \o path \o " - " \o g.text,
           err |-> g.err]
     ELSE [handle_ |-> r.ret, threw |-> FALSE, what |-> "", err |-> r.err]

\* A reload that loads over what the object holds.
reload_over(E, v, path) ==
  LET l == load_handle(E, path)
  IN [obj |-> [v EXCEPT !.handle_ = l.handle_], closed |-> << >>,
      threw |-> l.threw, what |-> l.what, err |-> l.err]

\* reload: unload(); load_handle(libPath);
reload(E, v, path) ==
  LET u == unload(v)
      l == load_handle(E, path)
  IN [obj |-> [u.obj EXCEPT !.handle_ = l.handle_], closed |-> u.closed,
      threw |-> l.threw, what |-> l.what, err |-> l.err]

\* A copy of the map where the code moves it.
MovedFromCache_kept(c) == c

\* The state std::move leaves other.cache_ in: the map's move constructor is
\* constant-time, it takes the nodes and leaves the source empty.
MovedFromCache(c) == EmptyCache

\* A move constructor that leaves the source's handle_ in place.
MovedFromHandle_kept(h) == h

\* other.handle_ = nullptr in the move constructor's body
MovedFromHandle(h) == Null

\* A move constructor whose initialiser list forgets cache_.
move_construct_handle_only(other) ==
  [self |-> [handle_ |-> other.handle_, cache_ |-> EmptyCache],
   other |-> [handle_ |-> Null, cache_ |-> other.cache_]]

\* The move constructor: [self: the new object, other: the source afterwards].
move_construct(other) ==
  [self |-> [handle_ |-> other.handle_, cache_ |-> other.cache_],
   other |-> [handle_ |-> MovedFromHandle(other.handle_),
              cache_ |-> MovedFromCache(other.cache_)]]

\* An exchange without a temporary: lhs = rhs; rhs = lhs.
swap_overwrite(lhs, rhs) == [lhs |-> rhs, rhs |-> rhs]

\* friend swap(lhs, rhs): exchanges handle_ and cache_.
swap(lhs, rhs) == [lhs |-> rhs, rhs |-> lhs]

\* The assignment without the move-and-swap and without a self test: release
\* the own handle, take rhs's members, empty rhs.
move_assign_direct(this, rhs, self) ==
  [this |-> IF self THEN EmptyObject ELSE rhs,
   rhs |-> EmptyObject,
   closed |-> unload_library(this.handle_)]

\* Move assignment by move-and-swap: tmp(std::move(rhs)); swap(*this, tmp);
\* ~tmp. self says that rhs is *this, so that *this is what tmp left behind.
move_assign(this, rhs, self) ==
  LET t == move_construct(rhs)
      this1 == IF self THEN t.other ELSE this
      s == swap(this1, t.self)
      d == unload_handle(s.rhs)
  IN [this |-> s.lhs, rhs |-> IF self THEN s.lhs ELSE t.other, closed |-> d.closed]

\* A get that looks into cache_ before it asks the loader.
get_cache_first(E, v, name) ==
  LET s == load_symbol(E, v.handle_, name)
      g == get_last_error(s.err)
  IN IF name \in DOMAIN v.cache_
     THEN [ret |-> v.cache_[name], threw |-> FALSE, what |-> "", err |-> E]
     ELSE IF s.ret = NullSym
     THEN [ret |-> NullSym, threw |-> TRUE,
           what |-> "Failed to load symbol: " \o name \o " - " \o g.text,
           err |-> g.err]
     ELSE [ret |-> s.ret, threw |-> FALSE, what |-> "", err |-> s.err]

\* A get that hands out whatever load_symbol returned, null included.
get_unchecked(E, v, name) ==
  LET s == load_symbol(E, v.handle_, name)
  IN [ret |-> s.ret, threw |-> FALSE, what |-> "", err |-> s.err]

\* get<F>: load_symbol, throws when the address is null.
get(E, v, name) ==
  LET s == load_symbol(E, v.handle_, name)
      g == get_last_error(s.err)
  IN IF s.ret = NullSym
     THEN [ret |-> NullSym, threw |-> TRUE,
           what |-> "Failed to load symbol: " \o name \o " - " \o g.text,
           err |-> g.err]
     ELSE [ret |-> s.ret, threw |-> FALSE, what |-> "", err |-> s.err]

\* try_get<F>: load_symbol, null on failure.
try_get(E, v, name) == load_symbol(E, v.handle_, name)

\* A has_symbol that answers from the cache.
has_symbol_cached(E, v, name) == [ret |-> name \in DOMAIN v.cache_, err |-> E]

\* has_symbol(symbol_name): resolves the name as try_get does and discards
\* the address.
has_symbol(E, v, name) ==
  LET s == try_get(E, v, name)
  IN [ret |-> s.ret # NullSym, err |-> s.err]

\* An insert that is lost.
emplace_dropped(c, name, addr) == c

\* An insert that assigns, replacing the address of a present key.
emplace_overwrite(c, name, addr) ==
  [n \in DOMAIN c \cup {name} |-> IF n = name THEN addr ELSE c[n]]

\* cache_.emplace(name, addr): inserts only when the key is absent.
emplace(c, name, addr) ==
  IF name \in DOMAIN c THEN c
  ELSE [n \in DOMAIN c \cup {name} |-> IF n = name THEN addr ELSE c[n]]

\* An invoke that inserts what it resolved before it tests it.
invoke_insert_first(E, v, name) ==
  LET symbol == IF name \in DOMAIN v.cache_ THEN v.cache_[name] ELSE NullSym
      s == try_get(E, v, name)
      g == get(E, v, name)
  IN IF symbol # NullSym
     THEN [obj |-> v, called |-> symbol, threw |-> FALSE, what |-> "",
           err |-> E, nres |-> 0]
     ELSE [obj |-> [v EXCEPT !.cache_ = emplace(v.cache_, name, s.ret)],
           called |-> g.ret, threw |-> g.threw, what |-> g.what,
           err |-> g.err, nres |-> 1]

\* An invoke without the lookup in cache_: it resolves on every call.
invoke_no_lookup(E, v, name) ==
  LET g == get(E, v, name)
  IN [obj |-> IF g.threw THEN v
              ELSE [v EXCEPT !.cache_ = emplace(v.cache_, name, g.ret)],
      called |-> g.ret, threw |-> g.threw, what |-> g.what, err |-> g.err,
      nres |-> 1]

\* invoke<F>: the cached address if there is one, else get<F> and cache it;
\* called is the address it calls, nres the platform resolutions it made.
invoke(E, v, name) ==
  LET symbol == IF name \in DOMAIN v.cache_ THEN v.cache_[name] ELSE NullSym
      g == get(E, v, name)
  IN IF symbol # NullSym
     THEN [obj |-> v, called |-> symbol, threw |-> FALSE, what |-> "",
           err |-> E, nres |-> 0]
     ELSE IF g.threw
     THEN [obj |-> v, called |-> NullSym, threw |-> TRUE, what |-> g.what,
           err |-> g.err, nres |-> 1]
     ELSE [obj |-> [v EXCEPT !.cache_ = emplace(v.cache_, name, g.ret)],
           called |-> g.ret, threw |-> FALSE, what |-> "", err |-> g.err,
           nres |-> 1]

\* An invoke that serves only the first signature from the cache and resolves
\* the name again for any other.
invoke_as_typed(E, v, name, F) ==
  IF F = "double(double, double)" THEN invoke(E, v, name)
  ELSE invoke_no_lookup(E, v, name)

\* invoke<F> for a declared F: F is the type of the local symbol and of the
\* reinterpret_cast of the cached void *; the cache is searched and filled by
\* symbol_name alone.
invoke_as(E, v, name, F) == invoke(E, v, name)

\* invoke_uncached<F>: get<F>(name)(args...)
invoke_uncached(E, v, name) ==
  LET g == get(E, v, name)
  IN [called |-> g.ret, threw |-> g.threw, what |-> g.what, err |-> g.err,
      nres |-> 1]

\* -------------------------------------------------------------- the machine

\* The record of an operation: what it was applied to, whether it threw and
\* with what message, the address it returned or called, the platform
\* resolutions it made and the handles it closed.
Did(op, o) ==
  [op |-> op, obj |-> o, src |-> "", name |-> "", sig |-> "", path |-> "",
   threw |-> FALSE,
   what |-> "", ret |-> NullSym, value |-> 0, found |-> FALSE,
   called |-> NullSym, nres |-> 0, closed |-> << >>]

\* A thread that is not inside invoke; err is the thread's own loader error
\* state (dlerror() and GetLastError() are per thread).
IdleThread ==
  [pc |-> "idle", name |-> "", symbol |-> NullSym, nres |-> 0,
   err |-> [dlerr |-> "", code |-> 0]]

\* No resolution made yet through the handle the shared object holds.
NoneResolved == [n \in Names |-> 0]

\* The storage of a DynamicLibrary that is not constructed (or was destroyed).
NoLegacy == [live |-> FALSE, handle |-> Null]

\* The callback kinds in the order trigger_callbacks tests them.
Kinds == {"double", "point", "box"}

\* Before any trigger_callbacks, and after a registration.
NotTriggered == [n |-> 0, calls |-> << >>]

\* The loader after an open that returned h.
Opened(h, path) == IF h # Null THEN Append(loaded, path) ELSE loaded
OpenedCount(h) == IF h # Null THEN Append(closeCount, 0) ELSE closeCount

\* An open of a loadable path takes a fresh reference number.
CanOpen(path) == path \in LoadablePaths => Len(loaded) < MaxOpens

\* The build that takes the #else branch (dlopen, dlsym, dlerror) on Linux,
\* where every process exports the C library's symbols.
Init ==
  /\ platform = "posix"
  /\ processSyms = ProcessCandidates
  /\ loaded = << >>
  /\ closeCount = << >>
  /\ errst = [dlerr |-> "", code |-> 0]
  /\ objs = [o \in Objs |-> NoObject]
  /\ last = Did("init", "")
  /\ mtx_ = NoThread
  /\ thr = [t \in Threads |-> IdleThread]
  /\ resolved = NoneResolved
  /\ g_double_cb = NullSym
  /\ g_point_cb = NullSym
  /\ g_box_cb = NullSym
  /\ latest = [k \in Kinds |-> NullSym]
  /\ triggered = NotTriggered
  /\ g_counter = 42
  /\ counter_ptr = NullSym
  /\ legacy = [o \in Objs |-> NoLegacy]

\* dynamic_library(const std::string &libPath): a throwing constructor leaves
\* no object behind.
Construct(o, path) ==
  /\ ~objs[o].live
  /\ CanOpen(path)
  /\ LET l == load_handle(errst, path)
     IN /\ objs' = IF l.threw THEN objs
                   ELSE [objs EXCEPT ![o] = Live([handle_ |-> l.handle_,
                                                  cache_ |-> EmptyCache])]
        /\ loaded' = Opened(l.handle_, path)
        /\ closeCount' = OpenedCount(l.handle_)
        /\ errst' = l.err
        /\ last' = [Did("construct", o) EXCEPT !.path = path,
                                               !.threw = l.threw,
                                               !.what = l.what]
  /\ UNCHANGED <<sidevars, mtvars, platform, processSyms>>

\* dynamic_library(): the default member initialisers only.
DefaultConstruct(o) ==
  /\ ~objs[o].live
  /\ objs' = [objs EXCEPT ![o] = Live(EmptyObject)]
  /\ last' = Did("default_construct", o)
  /\ UNCHANGED <<sidevars, mtvars, platform, processSyms, loaded, closeCount, errst>>

\* ~dynamic_library(): unload_handle(), then the members go.
Destroy(o) ==
  /\ objs[o].live
  /\ LET u == unload_handle(Value(o))
     IN /\ objs' = [objs EXCEPT ![o] = NoObject]
        /\ closeCount' = ApplyCloses(closeCount, u.closed)
        /\ last' = [Did("destroy", o) EXCEPT !.closed = u.closed]
  /\ UNCHANGED <<sidevars, mtvars, platform, processSyms, loaded, errst>>

\* dynamic_library(dynamic_library &&other)
MoveConstruct(o, other) ==
  /\ ~objs[o].live
  /\ objs[other].live
  /\ LET m == move_construct(Value(other))
     IN /\ objs' = [objs EXCEPT ![o] = Live(m.self), ![other] = Live(m.other)]
        /\ last' = [Did("move_construct", o) EXCEPT !.src = other]
  /\ UNCHANGED <<sidevars, mtvars, platform, processSyms, loaded, closeCount, errst>>

\* operator=(dynamic_library &&rhs), rhs possibly *this
MoveAssign(o, rhs) ==
  /\ objs[o].live
  /\ objs[rhs].live
  /\ LET m == move_assign(Value(o), Value(rhs), o = rhs)
     IN /\ objs' = [objs EXCEPT ![rhs] = Live(m.rhs), ![o] = Live(m.this)]
        /\ closeCount' = ApplyCloses(closeCount, m.closed)
        /\ last' = [Did("move_assign", o) EXCEPT !.src = rhs,
                                                 !.closed = m.closed]
  /\ UNCHANGED <<sidevars, mtvars, platform, processSyms, loaded, errst>>

\* swap(lhs, rhs) called by a user of the class
Swap(l, r) ==
  /\ objs[l].live
  /\ objs[r].live
  /\ LET m == swap(Value(l), Value(r))
     IN /\ objs' = [objs EXCEPT ![l] = Live(m.lhs), ![r] = Live(m.rhs)]
        /\ last' = [Did("swap", l) EXCEPT !.src = r]
  /\ UNCHANGED <<sidevars, mtvars, platform, processSyms, loaded, closeCount, errst>>

\* unload()
Unload(o) ==
  /\ objs[o].live
  /\ LET u == unload(Value(o))
     IN /\ objs' = [objs EXCEPT ![o] = Live(u.obj)]
        /\ closeCount' = ApplyCloses(closeCount, u.closed)
        /\ last' = [Did("unload", o) EXCEPT !.closed = u.closed]
  /\ UNCHANGED <<sidevars, mtvars, platform, processSyms, loaded, errst>>

\* reload(libPath)
Reload(o, path) ==
  /\ objs[o].live
  /\ CanOpen(path)
  /\ LET r == reload(errst, Value(o), path)
     IN /\ objs' = [objs EXCEPT ![o] = Live(r.obj)]
        /\ loaded' = Opened(r.obj.handle_, path)
        /\ closeCount' = ApplyCloses(OpenedCount(r.obj.handle_), r.closed)
        /\ errst' = r.err
        /\ last' = [Did("reload", o) EXCEPT !.path = path, !.threw = r.threw,
                                            !.what = r.what,
                                            !.closed = r.closed]
  /\ UNCHANGED <<sidevars, mtvars, platform, processSyms>>

\* get<F>(symbol_name)
Get(o, name) ==
  /\ objs[o].live
  /\ LET g == get(errst, Value(o), name)
     IN /\ errst' = g.err
        /\ last' = [Did("get", o) EXCEPT !.name = name, !.threw = g.threw,
                                         !.what = g.what, !.ret = g.ret,
                                         !.nres = 1]
  /\ UNCHANGED <<sidevars, mtvars, platform, processSyms, loaded, closeCount, objs>>

\* try_get<F>(symbol_name)
TryGet(o, name) ==
  /\ objs[o].live
  /\ LET g == try_get(errst, Value(o), name)
     IN /\ errst' = g.err
        /\ last' = [Did("try_get", o) EXCEPT !.name = name, !.ret = g.ret,
                                             !.nres = 1]
  /\ UNCHANGED <<sidevars, mtvars, platform, processSyms, loaded, closeCount, objs>>

\* has_symbol(symbol_name)
HasSymbol(o, name) ==
  /\ objs[o].live
  /\ LET f == has_symbol(errst, Value(o), name)
     IN /\ errst' = f.err
        /\ last' = [Did("has_symbol", o) EXCEPT !.name = name,
                                                !.found = f.ret, !.nres = 1]
  /\ UNCHANGED <<sidevars, mtvars, platform, processSyms, loaded, closeCount, objs>>

\* invoke<F>(symbol_name, args...)
Invoke(o, name, F) ==
  /\ objs[o].live
  /\ LET i == invoke_as(errst, Value(o), name, F)
     IN /\ objs' = [objs EXCEPT ![o] = Live(i.obj)]
        /\ errst' = i.err
        /\ last' = [Did("invoke", o) EXCEPT !.name = name, !.sig = F,
                                            !.threw = i.threw,
                                            !.what = i.what,
                                            !.called = i.called,
                                            !.nres = i.nres]
  /\ UNCHANGED <<sidevars, mtvars, platform, processSyms, loaded, closeCount>>

\* invoke_uncached<F>(symbol_name, args...)
InvokeUncached(o, name) ==
  /\ objs[o].live
  /\ LET i == invoke_uncached(errst, Value(o), name)
     IN /\ errst' = i.err
        /\ last' = [Did("invoke_uncached", o) EXCEPT !.name = name,
                                                     !.threw = i.threw,
                                                     !.what = i.what,
                                                     !.called = i.called,
                                                     !.nres = i.nres]
  /\ UNCHANGED <<sidevars, mtvars, platform, processSyms, loaded, closeCount, objs>>

Next ==
  \/ \E o \in Objs, path \in Paths : Construct(o, path)
  \/ \E o \in Objs : DefaultConstruct(o)
  \/ \E o \in Objs : Destroy(o)
  \/ \E o, other \in Objs : MoveConstruct(o, other)
  \/ \E o, rhs \in Objs : MoveAssign(o, rhs)
  \/ \E l, r \in Objs : Swap(l, r)
  \/ \E o \in Objs : Unload(o)
  \/ \E o \in Objs, path \in Paths : Reload(o, path)
  \/ \E o \in Objs, name \in Names : Get(o, name)
  \/ \E o \in Objs, name \in Names : TryGet(o, name)
  \/ \E o \in Objs, name \in Names : HasSymbol(o, name)
  \/ \E o \in Objs, name \in Names, F \in Signatures : Invoke(o, name, F)
  \/ \E o \in Objs, name \in Names : InvokeUncached(o, name)

Spec == Init /\ [][Next]_vars

\* The build that takes the _WIN32 branch (LoadLibraryA, GetProcAddress,
\* GetLastError).
InitWindows ==
  /\ platform = "windows"
  /\ processSyms \in SUBSET ProcessCandidates
  /\ loaded = << >>
  /\ closeCount = << >>
  /\ errst = [dlerr |-> "", code |-> 0]
  /\ objs = [o \in Objs |-> NoObject]
  /\ last = Did("init", "")
  /\ mtx_ = NoThread
  /\ thr = [t \in Threads |-> IdleThread]
  /\ resolved = NoneResolved
  /\ g_double_cb = NullSym
  /\ g_point_cb = NullSym
  /\ g_box_cb = NullSym
  /\ latest = [k \in Kinds |-> NullSym]
  /\ triggered = NotTriggered
  /\ g_counter = 42
  /\ counter_ptr = NullSym
  /\ legacy = [o \in Objs |-> NoLegacy]

SpecWindows == InitWindows /\ [][Next]_vars

\* ------------------------------------------- invoke, one statement at a time
\* Threads call invoke on the shared object; each action is one statement of
\* invoke as a thread executes it between two accesses to shared state.

\* A lookup that finds nothing.
cache_find_nothing(c, name) == NullSym

\* it = cache_.find(symbol_name): the cached address, or nullptr as symbol.
cache_find(c, name) == IF name \in DOMAIN c THEN c[name] ELSE NullSym

\* A lock_guard that does not wait for the mutex.
CanLock_unguarded(owner) == TRUE

\* std::lock_guard's constructor returns only when no thread owns the mutex.
CanLock(owner) == owner = NoThread

\* A lock that is kept when the block ends.
ScopeEnd_held(t) == t

\* The closing brace of the lock_guard's block releases the mutex.
ScopeEnd(t) == NoThread

AllIdle == \A t \in Threads : thr[t].pc = "idle"

\* The count of the resolutions that returned an address (a get<F> that throws
\* is repeated by every invoke of the name).
Counted(name, threw) ==
  IF threw THEN resolved ELSE [resolved EXCEPT ![name] = @ + 1]

\* A thread enters invoke<F>(symbol_name, args...): symbol = nullptr.
InvokeBegin(t, name) ==
  /\ objs[Shared].live
  /\ thr[t].pc = "idle"
  /\ thr' = [thr EXCEPT ![t].pc = "lock_find", ![t].name = name]
  /\ UNCHANGED <<sidevars, platform, processSyms, loaded, closeCount, errst, objs, last,
                 mtx_, resolved>>

\* std::lock_guard<std::mutex> lock(mtx_) of the lookup block
LockFind(t) ==
  /\ thr[t].pc = "lock_find"
  /\ CanLock(mtx_)
  /\ mtx_' = t
  /\ thr' = [thr EXCEPT ![t].pc = "find"]
  /\ UNCHANGED <<sidevars, platform, processSyms, loaded, closeCount, errst, objs, last,
                 resolved>>

\* cache_.find(symbol_name) and the end of the lookup block
Find(t) ==
  /\ thr[t].pc = "find"
  /\ LET symbol == cache_find(objs[Shared].cache_, thr[t].name)
     IN thr' = [thr EXCEPT ![t].symbol = symbol,
                           ![t].pc = IF symbol # NullSym THEN "call" ELSE "get"]
  /\ mtx_' = ScopeEnd(t)
  /\ UNCHANGED <<sidevars, platform, processSyms, loaded, closeCount, errst, objs, last,
                 resolved>>

\* symbol = get<F>(symbol_name): an exception leaves invoke.
Resolve(t) ==
  /\ thr[t].pc = "get"
  /\ LET g == get(thr[t].err, Value(Shared), thr[t].name)
     IN /\ thr' = [thr EXCEPT ![t] = IF g.threw
                                      THEN [IdleThread EXCEPT !.err = g.err]
                                      ELSE [@ EXCEPT !.symbol = g.ret,
                                                     !.err = g.err,
                                                     !.nres = 1,
                                                     !.pc = "lock_emplace"]]
        /\ resolved' = Counted(thr[t].name, g.threw)
  /\ UNCHANGED <<sidevars, platform, processSyms, loaded, closeCount, errst, objs, last,
                 mtx_>>

\* std::lock_guard<std::mutex> lock(mtx_) of the insert block
LockEmplace(t) ==
  /\ thr[t].pc = "lock_emplace"
  /\ CanLock(mtx_)
  /\ mtx_' = t
  /\ thr' = [thr EXCEPT ![t].pc = "emplace"]
  /\ UNCHANGED <<sidevars, platform, processSyms, loaded, closeCount, errst, objs, last,
                 resolved>>

\* cache_.emplace(symbol_name, symbol) and the end of the insert block
Emplace(t) ==
  /\ thr[t].pc = "emplace"
  /\ objs' = [objs EXCEPT ![Shared].cache_ =
                            emplace(@, thr[t].name, thr[t].symbol)]
  /\ mtx_' = ScopeEnd(t)
  /\ thr' = [thr EXCEPT ![t].pc = "call"]
  /\ UNCHANGED <<sidevars, platform, processSyms, loaded, closeCount, errst, last,
                 resolved>>

\* return symbol(args...): the foreign call, from its start to its return.
Call(t) ==
  /\ thr[t].pc = "call"
  /\ thr' = [thr EXCEPT ![t] = [IdleThread EXCEPT !.err = thr[t].err]]
  /\ UNCHANGED <<sidevars, platform, processSyms, loaded, closeCount, errst, objs, last,
                 mtx_, resolved>>

\* The constructor and reload, which the caller has to serialise against every
\* other use of the object; the object's cache is empty after both.
SerialConstruct(path) ==
  /\ AllIdle
  /\ ~objs[Shared].live
  /\ CanOpen(path)
  /\ LET l == load_handle(errst, path)
     IN /\ objs' = IF l.threw THEN objs
                   ELSE [objs EXCEPT ![Shared] =
                           Live([handle_ |-> l.handle_, cache_ |-> EmptyCache])]
        /\ loaded' = Opened(l.handle_, path)
        /\ closeCount' = OpenedCount(l.handle_)
        /\ errst' = l.err
  /\ resolved' = NoneResolved
  /\ UNCHANGED <<sidevars, platform, processSyms, last, mtx_, thr>>

SerialReload(path) ==
  /\ AllIdle
  /\ objs[Shared].live
  /\ CanOpen(path)
  /\ LET r == reload(errst, Value(Shared), path)
     IN /\ objs' = [objs EXCEPT ![Shared] = Live(r.obj)]
        /\ loaded' = Opened(r.obj.handle_, path)
        /\ closeCount' = ApplyCloses(OpenedCount(r.obj.handle_), r.closed)
        /\ errst' = r.err
  /\ resolved' = NoneResolved
  /\ UNCHANGED <<sidevars, platform, processSyms, last, mtx_, thr>>

NextMT ==
  \/ \E path \in Paths : SerialConstruct(path)
  \/ \E path \in Paths : SerialReload(path)
  \/ \E t \in Threads, name \in Names : InvokeBegin(t, name)
  \/ \E t \in Threads : LockFind(t)
  \/ \E t \in Threads : Find(t)
  \/ \E t \in Threads : Resolve(t)
  \/ \E t \in Threads : LockEmplace(t)
  \/ \E t \in Threads : Emplace(t)
  \/ \E t \in Threads : Call(t)

SpecMT == Init /\ [][NextMT]_vars

\* The steps of a thread inside invoke that wait for nothing: the lookup,
\* the resolution, the insert and the foreign call (which returns).
Proceed(t) == Find(t) \/ Resolve(t) \/ Emplace(t) \/ Call(t)

\* The two lock_guard constructors.
Lock(t) == LockFind(t) \/ LockEmplace(t)

\* The steps of a thread inside invoke.
ThreadStep(t) == Lock(t) \/ Proceed(t)

\* Fair scheduling: a thread that can go on inside invoke does so, and a
\* thread that waits for the mutex is not overtaken forever by the threads
\* that keep taking it.
FairScheduling ==
  \A t \in Threads : WF_vars(Proceed(t)) /\ SF_vars(Lock(t))

\* The threads invoking on the object once it is constructed.
NextInvoke ==
  \/ \E path \in Paths : SerialConstruct(path)
  \/ \E t \in Threads, name \in Names : InvokeBegin(t, name)
  \/ \E t \in Threads : ThreadStep(t)

SpecMTFair == Init /\ [][NextInvoke]_vars /\ FairScheduling

\* ------------------------------------------- the fixture library's callbacks
\* register_*_callback and trigger_callbacks of src/dynamic/src/dynamic.cpp.

\* The functions a client passes to register_<kind>_callback; nullptr is a
\* function pointer like any other.
Callbacks(kind) == {NullSym, "on_" \o kind, "other_" \o kind}

\* The arguments of trigger_callbacks: every combination of the three flag
\* bits, a value with only a higher bit, one with a higher bit and bit 0, and
\* -1 (all bits set).
TriggerArgs == (0..9) \cup {-1}

\* n & (1 << k) for an int n in two's complement.
Bit(n, k) == (n \div (2 ^ k)) % 2 = 1

\* A registration that keeps a callback once one is registered.
register_callback_first(old, cb) == IF old = NullSym THEN cb ELSE old

\* register_<kind>_callback(cb): g_<kind>_cb = cb
register_callback(old, cb) == cb

\* if ((n & flag) && cb) cb(...): the call it makes, if any.
CallIf(n, k, kind, cb) ==
  IF Bit(n, k) /\ cb # NullSym THEN <<[kind |-> kind, cb |-> cb]>> ELSE << >>

\* trigger_callbacks(n): the calls it makes, in order.
trigger_callbacks(n, d, p, b) ==
  CallIf(n, 0, "double", d) \o CallIf(n, 1, "point", p) \o CallIf(n, 2, "box", b)

RegisterDouble(cb) ==
  /\ g_double_cb' = register_callback(g_double_cb, cb)
  /\ latest' = [latest EXCEPT !["double"] = cb]
  /\ triggered' = NotTriggered
  /\ UNCHANGED <<platform, processSyms, loaded, closeCount, errst, objs, last,
                 mtvars, datavars, legacy, g_point_cb, g_box_cb>>

RegisterPoint(cb) ==
  /\ g_point_cb' = register_callback(g_point_cb, cb)
  /\ latest' = [latest EXCEPT !["point"] = cb]
  /\ triggered' = NotTriggered
  /\ UNCHANGED <<platform, processSyms, loaded, closeCount, errst, objs, last,
                 mtvars, datavars, legacy, g_double_cb, g_box_cb>>

RegisterBox(cb) ==
  /\ g_box_cb' = register_callback(g_box_cb, cb)
  /\ latest' = [latest EXCEPT !["box"] = cb]
  /\ triggered' = NotTriggered
  /\ UNCHANGED <<platform, processSyms, loaded, closeCount, errst, objs, last,
                 mtvars, datavars, legacy, g_double_cb, g_point_cb>>

TriggerCallbacks(n) ==
  /\ triggered' = [n |-> n,
                   calls |-> trigger_callbacks(n, g_double_cb, g_point_cb,
                                               g_box_cb)]
  /\ UNCHANGED <<platform, processSyms, loaded, closeCount, errst, objs, last,
                 mtvars, datavars, legacy, g_double_cb, g_point_cb, g_box_cb, latest>>

NextFixture ==
  \/ \E cb \in Callbacks("double") : RegisterDouble(cb)
  \/ \E cb \in Callbacks("point") : RegisterPoint(cb)
  \/ \E cb \in Callbacks("box") : RegisterBox(cb)
  \/ \E n \in TriggerArgs : TriggerCallbacks(n)

SpecFixture == Init /\ [][NextFixture]_vars

\* ------------------------------------------------- the exported variables
\* get_variable / try_get_variable on the fixture's g_counter and
\* g_counter_ptr, as used by testGetVariable; the module stays loaded.

\* The names testGetVariable asks for, and one that no module exports.
AskedVarNames == VarNames \cup {"g_missing"}

\* The values the client stores through counter_ptr (main.cpp: 101).
StoredValues == {101, 7}

\* int *g_counter_ptr = &g_counter: the pointer stored at an address.
LoadPtr(addr) ==
  IF addr = "libdynamic.so!g_counter_ptr" THEN "libdynamic.so!g_counter"
  ELSE NullSym

\* The int read at an address, g being the content of g_counter.
LoadInt(g, addr) == IF addr = "libdynamic.so!g_counter" THEN g ELSE 0

\* A store that goes to a copy and leaves g_counter as it is.
StoreInt_copy(g, addr, value) == g

\* *addr = value: the content of g_counter after the store.
StoreInt(g, addr, value) ==
  IF addr = "libdynamic.so!g_counter" THEN value ELSE g

\* get_variable<T>: get specialised for data symbols, a reference to the
\* variable's storage (ret is the referenced address).
get_variable(E, v, name) == get(E, v, name)

\* try_get_variable<T>: try_get for data symbols, a pointer to the storage or
\* null.
try_get_variable(E, v, name) == try_get(E, v, name)

\* What the client reads through the address it got for name: g_counter
\* itself, or *g_counter_ptr.
ReadThrough(name, addr) ==
  IF name = "g_counter_ptr" THEN LoadInt(g_counter, LoadPtr(addr))
  ELSE LoadInt(g_counter, addr)

\* lib.get_variable<T>(name); int *counter_ptr = the content of g_counter_ptr
GetVariable(o, name) ==
  /\ objs[o].live
  /\ LET g == get_variable(errst, Value(o), name)
     IN /\ errst' = g.err
        /\ counter_ptr' = IF name = "g_counter_ptr" /\ ~g.threw
                          THEN LoadPtr(g.ret) ELSE counter_ptr
        /\ last' = [Did("get_variable", o) EXCEPT
                      !.name = name, !.threw = g.threw, !.what = g.what,
                      !.ret = g.ret,
                      !.value = IF g.threw THEN 0
                                ELSE ReadThrough(name, g.ret)]
  /\ UNCHANGED <<platform, processSyms, loaded, closeCount, objs, mtvars,
                 fixturevars, legacy, g_counter>>

\* lib.try_get_variable<T>(name)
TryGetVariable(o, name) ==
  /\ objs[o].live
  /\ LET g == try_get_variable(errst, Value(o), name)
     IN /\ errst' = g.err
        /\ last' = [Did("try_get_variable", o) EXCEPT
                      !.name = name, !.ret = g.ret,
                      !.value = IF g.ret = NullSym THEN 0
                                ELSE ReadThrough(name, g.ret)]
  /\ UNCHANGED <<platform, processSyms, loaded, closeCount, objs, mtvars,
                 fixturevars, legacy, datavars>>

\* *counter_ptr = value
WriteThrough(value) ==
  /\ counter_ptr # NullSym
  /\ g_counter' = StoreInt(g_counter, counter_ptr, value)
  /\ last' = [Did("store", "") EXCEPT !.ret = counter_ptr, !.value = value]
  /\ UNCHANGED <<platform, processSyms, loaded, closeCount, errst, objs,
                 mtvars, fixturevars, legacy, counter_ptr>>

NextVar ==
  \/ \E o \in Objs, path \in Paths : Construct(o, path)
  \/ \E o \in Objs, name \in AskedVarNames : GetVariable(o, name)
  \/ \E o \in Objs, name \in AskedVarNames : TryGetVariable(o, name)
  \/ \E value \in StoredValues : WriteThrough(value)

SpecVar == Init /\ [][NextVar]_vars

\* --------------------------------------------- the legacy class DynamicLibrary
\* src/application/dynamicLibrary.hpp: an owner of one handle, without a cache.

\* ::loadLibrary: dlopen / LoadLibraryA
loadLibrary(E, path) == load_library(E, path)

\* ::unloadLibrary: the handles it passes to dlclose / FreeLibrary.
unloadLibrary(handle) == IF handle # Null THEN <<handle>> ELSE << >>

isLoaded(v) == v.handle # Null

\* A move assignment without the test this != &other.
DynamicLibrary_move_assign_untested(this, other, self) ==
  [this |-> IF self THEN Null ELSE other,
   other |-> Null,
   closed |-> unloadLibrary(this)]

\* operator=(DynamicLibrary &&other) on the handles of *this and other: unless
\* other is *this, unload the own handle, take other's, empty other.
DynamicLibrary_move_assign(this, other, self) ==
  IF self THEN [this |-> this, other |-> other, closed |-> << >>]
  ELSE [this |-> other, other |-> Null, closed |-> unloadLibrary(this)]

\* DynamicLibrary(const std::string &libPath): throws when loadLibrary
\* returns null, and leaves no object behind then.
LegacyConstruct(o, path) ==
  /\ ~legacy[o].live
  /\ CanOpen(path)
  /\ LET r == loadLibrary(errst, path)
         g == get_last_error(r.err)
     IN /\ legacy' = IF r.ret = Null THEN legacy
                     ELSE [legacy EXCEPT ![o] = [live |-> TRUE, handle |-> r.ret]]
        /\ loaded' = Opened(r.ret, path)
        /\ closeCount' = OpenedCount(r.ret)
        /\ errst' = IF r.ret = Null THEN g.err ELSE r.err
        /\ last' = [Did("legacy_construct", o) EXCEPT !.path = path,
                                                      !.threw = (r.ret = Null)]
  /\ UNCHANGED <<platform, processSyms, objs, mtvars, fixturevars, datavars>>

\* ~DynamicLibrary(): unloadLibrary(handle)
LegacyDestroy(o) ==
  /\ legacy[o].live
  /\ LET closed == unloadLibrary(legacy[o].handle)
     IN /\ legacy' = [legacy EXCEPT ![o] = NoLegacy]
        /\ closeCount' = ApplyCloses(closeCount, closed)
        /\ last' = [Did("legacy_destroy", o) EXCEPT !.closed = closed]
  /\ UNCHANGED <<platform, processSyms, loaded, errst, objs, mtvars,
                 fixturevars, datavars>>

\* DynamicLibrary(DynamicLibrary &&other): handle(other.handle), then
\* other.handle = nullptr
LegacyMoveConstruct(o, other) ==
  /\ ~legacy[o].live
  /\ legacy[other].live
  /\ legacy' = [legacy EXCEPT ![o] = [live |-> TRUE,
                                      handle |-> legacy[other].handle],
                              ![other].handle = Null]
  /\ last' = [Did("legacy_move_construct", o) EXCEPT !.src = other]
  /\ UNCHANGED <<platform, processSyms, loaded, closeCount, errst, objs,
                 mtvars, fixturevars, datavars>>

\* operator=(DynamicLibrary &&other), other possibly *this
LegacyMoveAssign(o, other) ==
  /\ legacy[o].live
  /\ legacy[other].live
  /\ LET m == DynamicLibrary_move_assign(legacy[o].handle,
                                         legacy[other].handle, o = other)
     IN /\ legacy' = [legacy EXCEPT ![other].handle = m.other,
                                    ![o].handle = m.this]
        /\ closeCount' = ApplyCloses(closeCount, m.closed)
        /\ last' = [Did("legacy_move_assign", o) EXCEPT !.src = other,
                                                        !.closed = m.closed]
  /\ UNCHANGED <<platform, processSyms, loaded, errst, objs, mtvars,
                 fixturevars, datavars>>

NextLegacy ==
  \/ \E o \in Objs, path \in Paths : LegacyConstruct(o, path)
  \/ \E o \in Objs : LegacyDestroy(o)
  \/ \E o, other \in Objs : LegacyMoveConstruct(o, other)
  \/ \E o, other \in Objs : LegacyMoveAssign(o, other)

SpecLegacy == Init /\ [][NextLegacy]_vars

\* ------------------------------------------------------------------ claims

Handles == 1..Len(loaded)

\* The references that were opened and not closed since.
OpenHandles == {h \in Handles : closeCount[h] = 0}

LiveObjs == {o \in Objs : objs[o].live}

Holders(h) == {o \in LiveObjs : objs[o].handle_ = h}

ValueIn(os, o) == [handle_ |-> os[o].handle_, cache_ |-> os[o].cache_]

\* What the lookups would give on object o in the current state.
GetOn(o, n) == get(errst, Value(o), n)
TryGetOn(o, n) == try_get(errst, Value(o), n)
InvokeOn(o, n) == invoke(errst, Value(o), n)
InvokeUncachedOn(o, n) == invoke_uncached(errst, Value(o), n)
HasSymbolOn(o, n) == has_symbol(errst, Value(o), n)

\* C1: every handle that was opened is closed exactly once: no handle is ever
\* closed twice, and when every object has been destroyed no opened handle is
\* left unclosed.
C1_ClosedExactlyOnce ==
  /\ \A h \in Handles : closeCount[h] <= 1
  /\ LiveObjs = {} => \A h \in Handles : closeCount[h] = 1

\* Two handles were opened and every object has been destroyed again.
C1_Witness ==
  /\ LiveObjs = {}
  /\ Len(loaded) = 2
  /\ last.op = "destroy"
  /\ \A h \in Handles : closeCount[h] = 1

\* C2: between operations valid() is true exactly when the object holds a
\* handle, and a held handle is one that was opened and is not closed yet.
C2_ValidIffOpenHandle ==
  \A o \in LiveObjs :
    /\ valid(Value(o)) <=> objs[o].handle_ \in OpenHandles
    /\ ~valid(Value(o)) <=> native_handle(Value(o)) = Null

\* An object that was unloaded next to one that still holds its handle.
C2_Witness ==
  /\ last.op = "unload"
  /\ last.closed # << >>
  /\ ~valid(Value(last.obj))
  /\ \E o \in LiveObjs : valid(Value(o))

LoadErrorText(path) ==
  IF platform = "posix" THEN DlopenMessage(path)
  ELSE "Error Code: 126 - The specified module could not be found."

\* C4: Construct on a path the loader can open yields a valid object; on a path
\* it cannot open it raises a load error that carries the path and the
\* platform's error text, and no handle is held or left open by the failure.
C4_Construct ==
  [][last'.op = "construct" =>
       LET o == last'.obj
           p == last'.path
       IN IF p \in LoadablePaths
          THEN /\ ~last'.threw
               /\ objs'[o].live
               /\ valid(ValueIn(objs', o))
               /\ closeCount'[objs'[o].handle_] = 0
          ELSE /\ last'.threw
               /\ last'.what =
                    "Failed to load library: " \o p \o " - " \o LoadErrorText(p)
               /\ ~objs'[o].live
               /\ objs'[o].handle_ = Null
               /\ loaded' = loaded
               /\ closeCount' = closeCount]_vars

\* A construction has failed while another object is loaded.
C4_Witness ==
  /\ last.op = "construct"
  /\ last.threw
  /\ last.path \notin LoadablePaths
  /\ \E o \in LiveObjs : valid(Value(o))

\* C5: after b is move-constructed or move-assigned from a loaded a, b is
\* valid, holds the handle a held and has exactly the cache entries a had, so
\* invoke on b of a name a had cached resolves nothing, and get, try_get and
\* invoke on b give what they would have given on a before the move.
C5_MoveTransfers ==
  [][last'.op \in {"move_construct", "move_assign"} =>
     \A a, b \in Objs :
       (last'.src = a /\ last'.obj = b /\ valid(Value(a))) =>
         LET before == Value(a)
             after == ValueIn(objs', b)
         IN /\ valid(after)
            /\ after.handle_ = before.handle_
            /\ after.cache_ = before.cache_
            /\ \A n \in DOMAIN before.cache_ :
                 InvokeOn(b, n)' =
                   [obj |-> before, called |-> before.cache_[n], threw |-> FALSE,
                    what |-> "", err |-> errst, nres |-> 0]
            /\ \A n \in Names :
                 /\ GetOn(b, n)' = GetOn(a, n)
                 /\ TryGetOn(b, n)' = TryGetOn(a, n)
                 /\ InvokeOn(b, n)' = InvokeOn(a, n)]_vars

\* A loaded object with a cached name has been move-constructed from.
C5_Witness ==
  /\ last.op = "move_construct"
  /\ valid(Value(last.obj))
  /\ DOMAIN objs[last.obj].cache_ # {}

\* C6: after a move construction or a move assignment to a different object
\* the source is empty: not valid, no handle, no cache entries, so that a
\* later invoke on it resolves afresh instead of using an address cached
\* before the move.
C6_SourceEmptied ==
  [][last'.op \in {"move_construct", "move_assign"} =>
     \A a, b \in Objs :
       (last'.src = a /\ last'.obj = b /\ a # b) =>
         LET after == ValueIn(objs', a)
         IN /\ objs'[a].live
            /\ ~valid(after)
            /\ after.handle_ = Null
            /\ DOMAIN after.cache_ = {}
            /\ \A n \in Names : InvokeOn(a, n)'.nres = 1]_vars

\* A loaded object with cached names has been move-assigned from.
C6_Witness ==
  /\ last.op = "move_assign"
  /\ last.src # last.obj
  /\ valid(Value(last.obj))
  /\ Cardinality(DOMAIN objs[last.obj].cache_) = 2
  /\ objs[last.src].live

\* C7: b = move(a) with b holding a handle closes that handle once and does
\* not close the handle that comes from a; a = move(a) closes nothing and
\* leaves a with the handle and cache it had.
C7_MoveAssignReleases ==
  [][last'.op = "move_assign" =>
       LET b == last'.obj
           a == last'.src
           Hb == objs[b].handle_
           Ha == objs[a].handle_
       IN IF a # b
          THEN /\ last'.closed = (IF Hb # Null THEN <<Hb>> ELSE << >>)
               /\ Hb # Null => closeCount'[Hb] = closeCount[Hb] + 1
               /\ Ha # Null => closeCount'[Ha] = closeCount[Ha]
               /\ \A h \in Handles \ {Hb} : closeCount'[h] = closeCount[h]
          ELSE /\ last'.closed = << >>
               /\ closeCount' = closeCount
               /\ objs' = objs]_vars

\* A loaded object has been assigned from another loaded object.
C7_Witness ==
  /\ last.op = "move_assign"
  /\ last.src # last.obj
  /\ Len(last.closed) = 1
  /\ valid(Value(last.obj))
  /\ closeCount[objs[last.obj].handle_] = 0

\* C8: unload never raises and leaves the object not valid, without a handle
\* and with an empty cache; unloading that object again, or unloading an empty
\* object, changes nothing and closes no handle.
C8_UnloadIdempotent ==
  [][last'.op = "unload" =>
       LET before == Value(last'.obj)
           after == ValueIn(objs', last'.obj)
       IN /\ ~last'.threw
          /\ ~valid(after)
          /\ after = EmptyObject
          /\ last'.closed =
               (IF before.handle_ # Null THEN <<before.handle_>> ELSE << >>)
          /\ unload(after) = [obj |-> after, closed |-> << >>]
          /\ before = EmptyObject =>
               /\ last'.closed = << >>
               /\ objs' = objs
               /\ closeCount' = closeCount
               /\ loaded' = loaded
               /\ errst' = errst]_vars

\* An object whose handle was released before has been unloaded.
C8_Witness ==
  /\ last.op = "unload"
  /\ last.closed = << >>
  /\ LiveObjs = {last.obj}
  /\ Handles # {}
  /\ OpenHandles = {}

\* C9: after unload() of a loaded handle every get and invoke raises, for
\* every name, until the handle is loaded again; a successful reload makes the
\* object valid with an empty cache, so that the first invoke of each name
\* resolves afresh.
C9_RaisesUntilReloaded ==
  [][/\ (/\ last.op = "unload"
         /\ last.closed # << >>
         /\ last'.op \in {"get", "invoke"}
         /\ last'.obj = last.obj) => last'.threw
     /\ (last'.op = "reload" /\ ~last'.threw) =>
          \A o \in Objs :
            last'.obj = o =>
              /\ valid(ValueIn(objs', o))
              /\ objs'[o].cache_ = EmptyCache
              /\ \A n \in Names : InvokeOn(o, n)'.nres = 1]_vars

\* C10: reload releases the held module and clears the cache, then opens
\* path; a failed open raises a load error and leaves the object empty with
\* the previous module closed; a successful one leaves the object holding only
\* the new handle, with no cache entry of the previous module.
C10_Reload ==
  [][last'.op = "reload" =>
       LET p == last'.path
           before == Value(last'.obj)
           after == ValueIn(objs', last'.obj)
       IN /\ last'.closed =
               (IF before.handle_ # Null THEN <<before.handle_>> ELSE << >>)
          /\ before.handle_ # Null => closeCount'[before.handle_] = 1
          /\ after.cache_ = EmptyCache
          /\ IF p \in LoadablePaths
             THEN /\ ~last'.threw
                  /\ valid(after)
                  /\ after.handle_ \notin Handles
                  /\ loaded'[after.handle_] = p
                  /\ closeCount'[after.handle_] = 0
             ELSE /\ last'.threw
                  /\ last'.what =
                       "Failed to load library: " \o p \o " - " \o LoadErrorText(p)
                  /\ ~valid(after)
                  /\ after = EmptyObject
                  /\ loaded' = loaded]_vars

\* A loaded object has failed to reload: its module is closed and not restored.
C10_Witness ==
  /\ last.op = "reload"
  /\ last.threw
  /\ Len(last.closed) = 1
  /\ ~valid(Value(last.obj))
\* The head of the message of the symbol error get throws for name.
SymbolErrorHead(name) == "Failed to load symbol: " \o name \o " - "

\* C11: on a loaded handle, for a name the module does not export try_get
\* returns null without raising and get raises a symbol error that carries
\* the name; for a name it exports, get and try_get return the same non-null
\* address, and a repeated call returns that address again whatever lookups
\* happened before it.
C11_GetAndTryGet ==
  (last.op \in {"get", "try_get"} /\ valid(Value(last.obj))) =>
    LET o == last.obj
        n == last.name
        h == objs[o].handle_
    IN IF n \in Exports(loaded[h])
       THEN /\ ~last.threw
            /\ last.ret # NullSym
            /\ last.ret = loaded[h] \o "!" \o n
            /\ GetOn(o, n).ret = last.ret /\ ~GetOn(o, n).threw
            /\ TryGetOn(o, n).ret = last.ret
       ELSE /\ last.ret = NullSym
            /\ last.op = "try_get" => ~last.threw
            /\ last.op = "get" =>
                 /\ last.threw
                 /\ \E text \in {DlsymMessage(h, n), "Unknown error"} :
                      last.what = SymbolErrorHead(n) \o text

\* get has just raised for a name the loaded module does not export, on a
\* handle that resolves another name.
C11_Witness ==
  /\ last.op = "get"
  /\ valid(Value(last.obj))
  /\ last.name \notin Exports(loaded[objs[last.obj].handle_])
  /\ last.threw
  /\ \E n \in Exports(loaded[objs[last.obj].handle_]) :
       GetOn(last.obj, n).ret # NullSym
\* C13: in every reachable state invoke(name) has the outcome of get(name)
\* followed by a call of the returned address, and so of invoke_uncached(name):
\* the same address is called or both raise the same error; and in a
\* sequential run the invoke after a successful invoke of the same name is a
\* cache hit that calls the same address and resolves nothing.
C13_InvokeLikeGet ==
  /\ \A o \in LiveObjs, n \in Names :
       LET i == InvokeOn(o, n)
           g == GetOn(o, n)
           u == InvokeUncachedOn(o, n)
       IN /\ i.threw = g.threw /\ i.called = g.ret /\ i.what = g.what
          /\ u.threw = i.threw /\ u.called = i.called /\ u.what = i.what
  /\ (last.op = "invoke" /\ ~last.threw) =>
       LET again == InvokeOn(last.obj, last.name)
       IN /\ ~again.threw
          /\ again.called = last.called
          /\ again.nres = 0
          /\ again.obj = Value(last.obj)

\* An invoke has resolved a name and cached it next to an entry cached
\* earlier.
C13_Witness ==
  /\ last.op = "invoke"
  /\ ~last.threw
  /\ last.nres = 1
  /\ valid(Value(last.obj))
  /\ Cardinality(DOMAIN objs[last.obj].cache_) = 2
  /\ objs[last.obj].cache_[last.name] = last.called
\* The (name, address) entries of all caches of os.
Entries(os) ==
  UNION {{<<n, os[o].cache_[n]>> : n \in DOMAIN os[o].cache_} : o \in Objs}

\* Caches to put in the place of an object's own: none, and one that maps
\* every name to an address no module has.
OtherCaches == {EmptyCache, [n \in Names |-> "elsewhere"]}

\* C14: get, try_get and invoke_uncached neither read nor modify the cache
\* and do not change the handle: the object and the loader are the same after
\* them, and what they return is what they return with any other cache
\* contents; only invoke adds cache entries.
C14_UncachedAccessors ==
  [][/\ last'.op \in {"get", "try_get", "invoke_uncached"} =>
        /\ objs' = objs /\ loaded' = loaded /\ closeCount' = closeCount
        /\ \A o \in Objs : \A c \in OtherCaches :
             last'.obj = o =>
               LET n == last'.name
                   w == [handle_ |-> objs[o].handle_, cache_ |-> c]
                   g == get(errst, w, n)
                   t == try_get(errst, w, n)
                   u == invoke_uncached(errst, w, n)
               IN /\ g = GetOn(o, n)
                  /\ t = TryGetOn(o, n)
                  /\ u = InvokeUncachedOn(o, n)
                  /\ last'.op = "get" =>
                       last'.ret = g.ret /\ last'.threw = g.threw
                  /\ last'.op = "try_get" => last'.ret = t.ret
                  /\ last'.op = "invoke_uncached" =>
                       last'.called = u.called /\ last'.threw = u.threw
     /\ last'.op # "invoke" =>
          objs' = objs \/ Entries(objs') \subseteq Entries(objs)]_vars

\* invoke_uncached has just called a name on an object whose cache holds
\* another name only.
C14_Witness ==
  /\ last.op = "invoke_uncached"
  /\ ~last.threw
  /\ valid(Value(last.obj))
  /\ DOMAIN objs[last.obj].cache_ # {}
  /\ last.name \notin DOMAIN objs[last.obj].cache_
\* C18: a failed symbol access (get or invoke raising, try_get returning
\* null) leaves the object as it was: it holds the same handle, valid() is
\* unchanged, the cache has the same contents with no entry for the name, and
\* no handle was closed.
C18_FailedAccessKeepsState ==
  [][(\/ last'.op \in {"get", "invoke", "invoke_uncached"} /\ last'.threw
      \/ last'.op = "try_get" /\ last'.ret = NullSym) =>
       /\ objs' = objs
       /\ closeCount' = closeCount
       /\ loaded' = loaded
       /\ \A o \in Objs :
            last'.obj = o =>
              /\ valid(ValueIn(objs', o)) = valid(Value(o))
              /\ native_handle(ValueIn(objs', o)) = native_handle(Value(o))
              /\ last'.name \notin DOMAIN objs'[o].cache_]_vars

\* invoke has just raised on a loaded object whose cache holds an entry.
C18_Witness ==
  /\ last.op = "invoke"
  /\ last.threw
  /\ valid(Value(last.obj))
  /\ DOMAIN objs[last.obj].cache_ # {}
\* C19: has_symbol(name) never raises and returns true exactly when resolving
\* the name through the handle yields a non-null address, that is exactly
\* when try_get(name) is non-null; it leaves the handle and the cache
\* unchanged, and after a has_symbol of an absent name an invoke of a cached
\* name still calls the cached address without resolving.
C19_HasSymbol ==
  [][last'.op = "has_symbol" =>
       /\ ~last'.threw
       /\ objs' = objs /\ loaded' = loaded /\ closeCount' = closeCount
       /\ \A o \in Objs, n \in Names :
            (last'.obj = o /\ last'.name = n) =>
              /\ last'.found <=> TryGetOn(o, n).ret # NullSym
              /\ last'.found <=> Lookup(objs[o].handle_, n) # NullSym
              /\ last'.found <=> TryGetOn(o, n)'.ret # NullSym
              /\ ~last'.found =>
                   \A m \in DOMAIN objs[o].cache_ :
                     LET i == InvokeOn(o, m)'
                     IN /\ i.called = objs[o].cache_[m]
                        /\ i.called = InvokeOn(o, m).called
                        /\ ~i.threw /\ i.nres = 0]_vars

\* has_symbol has just answered false on a loaded object that has a name in
\* its cache.
C19_Witness ==
  /\ last.op = "has_symbol"
  /\ ~last.found
  /\ valid(Value(last.obj))
  /\ DOMAIN objs[last.obj].cache_ # {}
  /\ \E n \in Names : HasSymbolOn(last.obj, n).ret
\* The text the loader reports for the failing lookup of name through h.
LookupErrorText(h, name) ==
  IF platform = "windows"
  THEN "Error Code: 127 - The specified procedure could not be found."
  ELSE IF Found(h, name) THEN "Unknown error"
  ELSE DlsymMessage(h, name)

\* C20: the diagnostic text in the symbol error raised by get is the one the
\* failing lookup itself produced: an error text left by an earlier failed
\* lookup or load never appears in it, and the text is never empty ("Unknown
\* error" when the loader reports nothing).
C20_ErrorTextOfThisLookup ==
  (last.op = "get" /\ last.threw) =>
    LET h == objs[last.obj].handle_
        n == last.name
    IN /\ last.what = SymbolErrorHead(n) \o LookupErrorText(h, n)
       /\ LookupErrorText(h, n) # ""
       /\ errst.dlerr = ""

\* get has just raised for a symbol the loader found with a null value and
\* reported no error for.
C20_Witness ==
  /\ last.op = "get"
  /\ last.threw
  /\ valid(Value(last.obj))
  /\ Found(objs[last.obj].handle_, last.name)
  /\ last.what = SymbolErrorHead(last.name) \o "Unknown error"
\* The threads inside one of invoke's two lock_guard blocks.
InCacheAccess == {t \in Threads : thr[t].pc \in {"find", "emplace"}}

\* C12 as stated: between two cache clears invoke resolves a name through the
\* platform at most once, however many threads call invoke concurrently.
C12_AtMostOneResolution ==
  \A n \in Names : resolved[n] <= 1

\* C12, amended: between two cache clears a thread resolves a name only when
\* its own lookup missed; an invoke whose lookup finds the name resolves
\* nothing, so after the first insert no further resolution starts, and the
\* resolutions of one name that return an address never outnumber the threads.
C12_OneResolutionPerMiss ==
  /\ [](\A n \in Names : resolved[n] <= Cardinality(Threads))
  /\ [][/\ \A t \in Threads :
            /\ (thr[t].pc = "find" /\ thr'[t].pc # "find"
                /\ thr[t].name \in DOMAIN objs[Shared].cache_) =>
                 /\ thr'[t].pc = "call"
                 /\ thr'[t].nres = 0
                 /\ resolved' = resolved
            /\ (thr'[t].pc = "get" /\ thr[t].pc # "get") =>
                 /\ thr[t].pc = "find"
                 /\ thr[t].name \notin DOMAIN objs[Shared].cache_
        /\ \A n \in Names :
            resolved'[n] > resolved[n] =>
              \E u \in Threads : /\ thr[u].pc = "get"
                                 /\ thr'[u].pc = "lock_emplace"
                                 /\ thr[u].name = n]_vars

\* Every thread has resolved the same name of the loaded module since the
\* cache was cleared, and the name is cached.
C12_Witness ==
  /\ valid(Value(Shared))
  /\ \E n \in DOMAIN objs[Shared].cache_ : resolved[n] = NumThreads
  /\ AllIdle
\* C15: the accesses to the cache are mutually exclusive: at most one thread
\* is inside a lookup or an insert, and it is the one that holds the mutex;
\* and a thread that is past its cache access with an address, like every
\* name resolved since the last clear once all invokes have completed, has
\* its name in the cache mapped to the address the name resolves to.
C15_ExclusiveCacheAccess ==
  /\ Cardinality(InCacheAccess) <= 1
  /\ \A t \in Threads : t \in InCacheAccess <=> mtx_ = t
  /\ \A t \in Threads :
       thr[t].pc = "call" =>
         /\ thr[t].name \in DOMAIN objs[Shared].cache_
         /\ objs[Shared].cache_[thr[t].name] = thr[t].symbol
         /\ thr[t].symbol = Lookup(objs[Shared].handle_, thr[t].name)
  /\ AllIdle =>
       \A n \in Names :
         resolved[n] > 0 =>
           /\ n \in DOMAIN objs[Shared].cache_
           /\ objs[Shared].cache_[n] = Lookup(objs[Shared].handle_, n)

\* All invokes have completed after two threads resolved one name and another
\* name was resolved as well; both names are cached.
C15_Witness ==
  /\ AllIdle
  /\ valid(Value(Shared))
  /\ \E n, m \in DOMAIN objs[Shared].cache_ :
       n # m /\ resolved[n] = 2 /\ resolved[m] >= 1
\* C16: the mutex is held only during the lookup and during the insert, never
\* during the platform resolution or the foreign call: a thread that waits
\* for the mutex can take it whenever no other thread is inside a lookup or
\* an insert, whatever resolutions and foreign calls are in progress.
C16_LockOnlyAroundCache ==
  /\ \A t \in Threads :
       thr[t].pc \in {"idle", "lock_find", "get", "lock_emplace", "call"} =>
         mtx_ # t
  /\ \A u \in Threads :
       (/\ thr[u].pc \in {"lock_find", "lock_emplace"}
        /\ \A t \in Threads \ {u} : thr[t].pc \notin {"find", "emplace"}) =>
         ENABLED (LockFind(u) \/ LockEmplace(u))

\* One thread is inside the insert of a name while another thread's foreign
\* call of another name, resolved by that thread, has not returned.
C16_Witness ==
  \E t, u \in Threads :
    /\ thr[t].pc = "call" /\ thr[t].nres = 1
    /\ thr[u].pc = "emplace" /\ mtx_ = u
    /\ thr[u].name # thr[t].name

\* C17: when two threads invoke the same uncached name concurrently, both may
\* miss and both resolve; they get the same address and both call through it,
\* and after their inserts the cache holds the one entry of the name with that
\* address, whichever insert came last.
C17_BenignRace ==
  /\ [](\A t, u \in Threads :
         (thr[t].nres = 1 /\ thr[u].nres = 1 /\ thr[t].name = thr[u].name) =>
           /\ thr[t].symbol = thr[u].symbol
           /\ thr[t].symbol # NullSym
           /\ \A w \in {t, u} :
                thr[w].pc = "call" =>
                  /\ thr[w].name \in DOMAIN objs[Shared].cache_
                  /\ objs[Shared].cache_[thr[w].name] = thr[w].symbol)
  /\ [][\A t \in Threads :
          (thr[t].pc = "emplace" /\ thr'[t].pc = "call") =>
            /\ objs'[Shared].cache_[thr[t].name] = thr[t].symbol
            /\ DOMAIN objs'[Shared].cache_ =
                 DOMAIN objs[Shared].cache_ \cup {thr[t].name}
            /\ \A n \in DOMAIN objs[Shared].cache_ :
                 objs'[Shared].cache_[n] = objs[Shared].cache_[n]]_vars

\* Two threads have both resolved the same name of the loaded module, both
\* have made their insert and both are in the foreign call.
C17_Witness ==
  \E t, u \in Threads :
    /\ t # u
    /\ valid(Value(Shared))
    /\ thr[t].name = thr[u].name
    /\ thr[t].pc = "call" /\ thr[u].pc = "call"
    /\ thr[t].nres = 1 /\ thr[u].nres = 1
\* C21: the cache is keyed by the symbol name alone and the declared
\* signature is neither stored nor checked: an invoke of a cached name, under
\* any declared signature, raises nothing, resolves nothing and calls the
\* cached address; so does in particular the invoke<S2> that follows a
\* successful invoke<S1> of the same name.
C21_KeyedByNameOnly ==
  [][last'.op = "invoke" =>
       \A o \in Objs, n \in Names :
         (last'.obj = o /\ last'.name = n) =>
           /\ DOMAIN objs'[o].cache_ \subseteq Names
           /\ n \in DOMAIN objs[o].cache_ =>
                /\ ~last'.threw
                /\ last'.nres = 0
                /\ last'.called = objs[o].cache_[n]
                /\ objs' = objs
           /\ (/\ last.op = "invoke" /\ ~last.threw
               /\ last.obj = o /\ last.name = n /\ last.sig # last'.sig) =>
                /\ ~last'.threw
                /\ last'.nres = 0
                /\ last'.called = last.called]_vars

\* A name was invoked as double() on a loaded object and served from the
\* cache, which holds nothing but addresses under names.
C21_Witness ==
  /\ last.op = "invoke"
  /\ last.sig = "double()"
  /\ valid(Value(last.obj))
  /\ last.nres = 0
  /\ ~last.threw
  /\ last.called = objs[last.obj].cache_[last.name]
\* C23: cache coherence: every entry of an object's cache is a non-null
\* address equal to what resolving its name through the handle the object
\* holds now returns, and the cache is empty whenever the object holds no
\* handle (so no entry of a module held earlier survives an unload, a reload
\* or a move).
C23_CacheCoherence ==
  \A o \in LiveObjs :
    /\ \A n \in DOMAIN objs[o].cache_ :
         /\ objs[o].cache_[n] # NullSym
         /\ objs[o].cache_[n] = Lookup(objs[o].handle_, n)
    /\ ~valid(Value(o)) => objs[o].cache_ = EmptyCache
\* The position of a kind in the order double, point, box.
KindBit(kind) == IF kind = "double" THEN 0 ELSE IF kind = "point" THEN 1 ELSE 2

\* C27: trigger_callbacks(n) calls exactly the callbacks whose flag bit is set
\* in n (bit 0 double, bit 1 point, bit 2 box) and that are registered, each
\* at most once and in the order double, point, box; a kind without a
\* registered callback is skipped; and the callback called for a kind is the
\* one most recently registered for it.
C27_TriggerCallbacks ==
  LET calls == triggered.calls
      n == triggered.n
  IN /\ \A k \in Kinds :
          (\E i \in 1..Len(calls) : calls[i].kind = k) <=>
            ((n \div (2 ^ KindBit(k))) % 2 = 1 /\ latest[k] # NullSym)
     /\ \A i \in 1..Len(calls) :
          /\ calls[i].kind \in Kinds
          /\ calls[i].cb = latest[calls[i].kind]
          /\ calls[i].cb # NullSym
     /\ \A i, j \in 1..Len(calls) :
          i < j => KindBit(calls[i].kind) < KindBit(calls[j].kind)

\* trigger_callbacks(-1) has called the registered point callback and then
\* the box callback, and has skipped the double callback, which is not
\* registered.
C27_Witness ==
  /\ triggered.n = -1
  /\ Len(triggered.calls) = 2
  /\ g_double_cb = NullSym
  /\ triggered.calls[1] = [kind |-> "point", cb |-> "other_point"]
  /\ triggered.calls[2].kind = "box"
LegacyLive == {o \in Objs : legacy[o].live}

\* C26: for the legacy class, over any sequence of constructions, move
\* constructions, move assignments (self-assignment included) and
\* destructions, each opened handle is closed exactly once; a move assignment
\* from another object closes the destination's previous handle, takes the
\* source's and leaves the source not loaded; a self-assignment changes
\* nothing; and a destruction closes the held handle only if it is not null.
C26_LegacyClosedOnce ==
  /\ [](/\ \A h \in Handles : closeCount[h] <= 1
        /\ LegacyLive = {} => \A h \in Handles : closeCount[h] = 1
        /\ \A o \in LegacyLive :
             isLoaded(legacy[o]) =>
               /\ legacy[o].handle \in OpenHandles
               /\ \A p \in LegacyLive \ {o} : legacy[p].handle # legacy[o].handle)
  /\ [][/\ last'.op = "legacy_move_assign" =>
            \A a, b \in Objs :
              (last'.obj = a /\ last'.src = b) =>
                IF a = b
                THEN legacy' = legacy /\ closeCount' = closeCount
                     /\ last'.closed = << >>
                ELSE /\ last'.closed = unloadLibrary(legacy[a].handle)
                     /\ legacy'[a].handle = legacy[b].handle
                     /\ ~isLoaded(legacy'[b])
                     /\ legacy'[b].live
        /\ last'.op = "legacy_destroy" =>
            \A a \in Objs :
              last'.obj = a =>
                /\ last'.closed = IF legacy[a].handle # Null
                                  THEN <<legacy[a].handle>> ELSE << >>
                /\ closeCount' = ApplyCloses(closeCount, last'.closed)]_vars

\* Two handles were opened, both are closed once, no object is left, and the
\* last destruction closed a handle.
C26_Witness ==
  /\ LegacyLive = {}
  /\ Len(loaded) = 2
  /\ last.op = "legacy_destroy"
  /\ last.closed # << >>
  /\ \A h \in Handles : closeCount[h] = 1
\* C22: get_variable and try_get_variable give access to the exported
\* variable's own storage in the loaded module, not to a copy: the address
\* they return for a name the module exports is the variable's, what is read
\* through it is the current content of g_counter (42 at first), a store
\* through the pointer read from g_counter_ptr changes g_counter and is
\* observed by the later reads; for a name the module does not export
\* get_variable raises and try_get_variable returns null.
C22_VariableStorage ==
  /\ [](last.op \in {"get_variable", "try_get_variable"} =>
         LET path == loaded[objs[last.obj].handle_]
         IN IF last.name \in Exports(path)
            THEN /\ ~last.threw
                 /\ last.ret = path \o "!" \o last.name
                 /\ last.value = g_counter
                 /\ (last.op = "get_variable" /\ last.name = "g_counter_ptr")
                      => counter_ptr = path \o "!g_counter"
            ELSE /\ last.ret = NullSym
                 /\ last.threw <=> last.op = "get_variable")
  /\ [](counter_ptr = NullSym => g_counter = 42)
  /\ [][last'.op = "store" => g_counter' = last'.value]_vars

\* After a store of 101 through the pointer got from g_counter_ptr,
\* try_get_variable has read 101 from g_counter.
C22_Witness ==
  /\ last.op = "try_get_variable"
  /\ last.name = "g_counter"
  /\ last.value = 101
  /\ g_counter = 101
  /\ counter_ptr = "libdynamic.so!g_counter"
\* The operations that empty a cache or move it to another object as a whole.
BulkOps == {"unload", "reload", "destroy", "move_construct", "move_assign",
            "swap"}

\* C24: a cache entry is never removed or changed individually: a step
\* leaves an object's cache as it is, or adds the one entry of a name that
\* was absent (only invoke of that name on that object does), or, in an
\* unload, a reload, a destruction, a move or a swap, empties the cache or
\* replaces it by the whole cache of another object; an insert for a name
\* that is present leaves the cache as it is; every key is a symbol name held
\* once.
C24_EntriesOnlyBulkCleared ==
  /\ [](\A o \in Objs :
         /\ DOMAIN objs[o].cache_ \subseteq Names
         /\ \A n \in DOMAIN objs[o].cache_ :
              emplace(objs[o].cache_, n, "elsewhere") = objs[o].cache_)
  /\ [][\A o \in Objs :
          LET c == objs[o].cache_
              d == objs'[o].cache_
          IN \/ d = c
             \/ /\ last'.op = "invoke" /\ last'.obj = o
                /\ \A n \in Names :
                     last'.name = n =>
                       /\ n \notin DOMAIN c
                       /\ DOMAIN d = DOMAIN c \cup {n}
                       /\ \A m \in DOMAIN c : d[m] = c[m]
             \/ /\ last'.op \in BulkOps
                /\ \/ d = EmptyCache
                   \/ \E p \in Objs \ {o} :
                        /\ d = objs[p].cache_
                        /\ last'.op \in {"move_construct", "move_assign",
                                         "swap"}]_vars

\* An object took over the whole non-empty cache of another by a move
\* assignment that closed its own handle; the other object's cache is empty.
C24_Witness ==
  /\ last.op = "move_assign"
  /\ last.closed # << >>
  /\ last.src # last.obj
  /\ objs[last.obj].cache_ # EmptyCache
  /\ objs[last.src].cache_ = EmptyCache
====
